---- MODULE Spec2Model ----
(***************************************************************************)
(* Model of the two browser-automation tools of copilot-money-cli:         *)
(*   tools/capture_graphql_ops.py  (operation capture, SpecCapture)        *)
(*   tools/get_token.py            (token capture,     SpecToken)          *)
(* SpecTokenFair is SpecToken with the session's statements scheduled      *)
(* fairly; SpecTools is a whole run of either tool.                        *)
(* Texts are sequences of one-character strings so that whitespace         *)
(* normalisation and the regular-expression searches are computed          *)
(* character by character, as the code does.                               *)
(***************************************************************************)
EXTENDS Integers, Sequences, FiniteSets, TLC

VARIABLES
    ops,        \* capture_graphql_ops.main: ops  (stableId -> captured operation)
    dbg,        \* capture_graphql_ops.main: dbg  (the four debug counters)
    delivered,  \* history: number of requests handed to the capture callback
    last,       \* history: the request handed to the capture callback most recently
    accepted,   \* history: the requests that reached the store, in arrival order
    raised,     \* history: the capture callback ended its latest call by raising
    run,        \* capture_graphql_ops.main: the controller (statement, session, manifest)
    args,       \* get_token.main: the parsed command line and the secrets file it names
    pc,         \* get_token.main: the statement the controller is at
    tick,       \* get_token.main: iterations completed by the current locator loop
    email,      \* get_token.main: email
    password,   \* get_token.main: password
    token,      \* get_token.main: token
    session,    \* the browser session: "closed", "open" or "ended"
    registered, \* page.on("request", on_request) has been executed
    now,        \* time.time(), in poll intervals
    deadline,   \* get_token.main: deadline, in poll intervals
    exitCode,   \* the exit status of the process; -1 while it runs
    stdout,     \* what was written to standard output, one element per write
    stderr,     \* the diagnostics written to the error stream
    started,    \* history: the session steps begun, in order
    exhausted,  \* history: the locator steps in which every candidate failed every time
    sent,       \* history: number of requests the page of the token session has issued
    firstQualifying, \* history: the trimmed remainder of the first qualifying request
    offered,    \* history: the URL of the request handed to the token callback most recently
    missed      \* history: number of requests issued while no callback was registered

callbackVars == <<ops, dbg, delivered, last, accepted, raised>>
capVars == <<callbackVars, run>>
tokVars == <<args, pc, tick, email, password, token, session, registered, now, deadline,
             exitCode, stdout, stderr, started, exhausted, sent, firstQualifying, offered,
             missed>>
vars == <<capVars, tokVars>>

(***************************************************************************)
(* Bounds                                                                  *)
(***************************************************************************)
MaxRequests == 2   \* requests delivered to the capture callback in one run
MaxPad == 1        \* extra whitespace characters added to a run when a query is rendered loosely
MaxSent == 2       \* requests delivered to the token callback in one run
MaxTimeout == 1    \* largest --timeout-seconds value tried

None == [t |-> "none", v |-> <<>>]

(***************************************************************************)
(* Characters and text helpers (Python str semantics)                      *)
(***************************************************************************)
Whitespace == {" ", "\t", "\n", "\r"}

WordChars ==
    {"a","b","c","d","e","f","g","h","i","j","k","l","m","n","o","p","q","r",
     "s","t","u","v","w","x","y","z","G","P","_","0","1"}

IsSpace(c) == c \in Whitespace

RECURSIVE LStrip(_)
LStrip(s) ==
    IF s = <<>> THEN <<>>
    ELSE IF IsSpace(Head(s)) THEN LStrip(Tail(s)) ELSE s

RECURSIVE RStrip(_)
RStrip(s) ==
    IF s = <<>> THEN <<>>
    ELSE IF IsSpace(s[Len(s)]) THEN RStrip(SubSeq(s, 1, Len(s) - 1)) ELSE s

\* str.strip()
Strip(s) == RStrip(LStrip(s))

\* str.split() without arguments: the maximal runs of non-whitespace characters
RECURSIVE SplitWs(_, _, _)
SplitWs(s, cur, acc) ==
    IF s = <<>> THEN (IF cur = <<>> THEN acc ELSE Append(acc, cur))
    ELSE IF IsSpace(Head(s))
         THEN SplitWs(Tail(s), <<>>, IF cur = <<>> THEN acc ELSE Append(acc, cur))
         ELSE SplitWs(Tail(s), Append(cur, Head(s)), acc)

Split(s) == SplitWs(s, <<>>, <<>>)

\* sep.join(parts)
RECURSIVE Join(_, _)
Join(sep, parts) ==
    IF parts = <<>> THEN <<>>
    ELSE IF Len(parts) = 1 THEN parts[1]
    ELSE parts[1] \o sep \o Join(sep, Tail(parts))

\* str.startswith(prefix)
StartsWith(s, p) == Len(s) >= Len(p) /\ SubSeq(s, 1, Len(p)) = p

\* re.search of a pattern made only of literal characters
Contains(s, p) ==
    \E i \in 1..(Len(s) - Len(p) + 1) : SubSeq(s, i, i + Len(p) - 1) = p

(***************************************************************************)
(* capture_graphql_ops.py: pure functions                                  *)
(***************************************************************************)
\* normalisation that trims the text and leaves its internal runs alone
normalize_query_strip_only(query) == Strip(query)

normalize_query(query) == Join(<<" ">>, Split(Strip(query)))

\* hashlib.sha256(text).hexdigest()[:16]; the digest is kept symbolic and
\* injective in the text it was computed from (no collisions).
Digest16(text) == <<"sha256:16">> \o text

\* f"{operation_name}:{digest}"; the digest has a fixed width, so the pair
\* below determines the formatted string and is determined by it.
stable_id(operation_name, query) ==
    [name |-> operation_name, digest |-> Digest16(normalize_query(query))]

\* re.match(r"^\\s*(query|mutation|subscription)\\b", query).  The pattern is
\* a raw string, so "\\s" is an escaped backslash followed by the letter s
\* and "\\b" an escaped backslash followed by the letter b: the text must
\* start with a backslash, any number of "s", the keyword, a backslash, "b".
Keywords ==
    << <<"q","u","e","r","y">>,
       <<"m","u","t","a","t","i","o","n">>,
       <<"s","u","b","s","c","r","i","p","t","i","o","n">> >>

SRun(n) == [i \in 1..n |-> "s"]

KindMatches(query, k) ==
    \E n \in 0..Len(query) :
        StartsWith(query, <<"\\">> \o SRun(n) \o Keywords[k] \o <<"\\", "b">>)

operation_kind(query) ==
    IF \E k \in 1..Len(Keywords) : KindMatches(query, k)
    THEN Keywords[CHOOSE k \in 1..Len(Keywords) : KindMatches(query, k)]
    ELSE <<"u","n","k","n","o","w","n">>

\* re.search(r"__schema\\b", query) or re.search(r"__type\\b", query): raw
\* strings again, so each pattern is the name followed by a backslash and "b".
SchemaPattern == <<"_","_","s","c","h","e","m","a","\\","b">>
TypePattern == <<"_","_","t","y","p","e","\\","b">>

\* the two names searched for without the characters that follow them
is_introspection_substring(query) ==
    Contains(query, <<"_","_","s","c","h","e","m","a">>)
        \/ Contains(query, <<"_","_","t","y","p","e">>)

is_introspection(query) ==
    Contains(query, SchemaPattern) \/ Contains(query, TypePattern)

(***************************************************************************)
(* Requests as the capture callback sees them                              *)
(***************************************************************************)
\* URLs are sequences of chunks; equality and prefix are those of the text.
ENDPOINT == <<"https://app.copilot.money", "/api/graphql">>
EndpointWithQuery == ENDPOINT \o <<"?op=1">>
OtherUrl == <<"https://app.copilot.money", "/">>

\* str.upper() on the method names that occur
Upper(m) == IF m = "post" THEN "POST" ELSE IF m = "get" THEN "GET" ELSE m

\* JSON values: t is the Python type, v the characters of a string or the
\* keys of an object in insertion order
Absent == [t |-> "absent", v |-> <<>>]
JStr(chars) == [t |-> "str", v |-> chars]
JInt == [t |-> "int", v |-> <<>>]
JObj(keys) == [t |-> "dict", v |-> keys]

\* a decoded body: t is "dict" for a JSON object, else the type found
Body(t, query, operationName, variables) ==
    [t |-> t, query |-> query, operationName |-> operationName, variables |-> variables]
NoBody == Body("none", Absent, Absent, Absent)
ListBody == Body("list", Absent, Absent, Absent)

\* payload.get(key) on a decoded object is the field; Absent stands for a
\* missing key (None)
IsStr(j) == j.t = "str"

\* sorted([str(k) for k in variables.keys()]) over the key names that occur
VarKeyOrder == <<"after", "first">>
InSeq(x, s) == \E i \in 1..Len(s) : s[i] = x
Sorted(keys) == SelectSeq(VarKeyOrder, LAMBDA k : InSeq(k, keys))

\* attr = getattr(req, "post_data_json", None) stands before the try: when the
\* accessor is a property whose getter raises anything but AttributeError, the
\* exception leaves _try_request_json
getattr_raises(req) == req.json.t = "access"

try_request_json(req) ==
    LET payload == IF req.json.t = "raise" THEN NoBody ELSE req.json.value
    IN  IF payload.t = "dict" THEN payload
        ELSE IF req.raw.t \in {"raise", "none", "blank"} THEN NoBody
        ELSE IF req.raw.t = "invalid" THEN NoBody
        ELSE IF req.raw.value.t = "dict" THEN req.raw.value
        ELSE NoBody

Anonymous == <<"a","n","o","n","y","m","o","u","s">>

operation_name_of(payload) ==
    IF ~IsStr(payload.operationName) \/ Strip(payload.operationName.v) = <<>>
    THEN Anonymous
    ELSE payload.operationName.v

variable_keys_of(payload) ==
    IF payload.variables.t = "dict" THEN Sorted(payload.variables.v) ELSE <<>>

CapturedOperation(req, payload) ==
    [operationName |-> operation_name_of(payload),
     stableId |-> stable_id(operation_name_of(payload), payload.query.v),
     kind |-> operation_kind(payload.query.v),
     url |-> req.url,
     method |-> req.method,
     variableKeys |-> variable_keys_of(payload),
     query |-> payload.query.v]

\* the store keyed by the operation name alone
StoreKey_by_name(req, payload) == [name |-> operation_name_of(payload), digest |-> <<>>]

\* ops[key] = {...}
StoreKey(req, payload) == stable_id(operation_name_of(payload), payload.query.v)

\* an entry, once written, is kept
Put_keep_first(store, key, entry) ==
    [k \in DOMAIN store \cup {key} |-> IF k \in DOMAIN store THEN store[k] ELSE entry]

Put(store, key, entry) ==
    [k \in DOMAIN store \cup {key} |-> IF k = key THEN entry ELSE store[k]]

(***************************************************************************)
(* The requests of a capture session                                       *)
(***************************************************************************)
kw_query == Keywords[1]
kw_mutation == Keywords[2]
NameG == <<"G">>
NameP == <<"P">>
LBrace == <<"{">>
RBrace == <<"}">>
FieldId == <<"i","d">>
Typename == <<"_","_","t","y","p","e","n","a","m","e">>
SchemaField == <<"_","_","s","c","h","e","m","a">>
TypeField == <<"_","_","t","y","p","e">>

\* documents as lists of words
DocPlain == <<kw_query, NameG, LBrace, FieldId, RBrace>>
DocTypename == <<kw_query, NameG, LBrace, Typename, RBrace>>
DocSchema == <<kw_query, LBrace, SchemaField, LBrace, FieldId, RBrace, RBrace>>
DocType == <<LBrace, TypeField, RBrace>>
DocSchemaEscaped == <<LBrace, SchemaPattern, RBrace>>
DocTypenameEscaped == <<LBrace, Typename, TypePattern, RBrace>>
DocMutation == <<kw_mutation, NameP, LBrace, FieldId, RBrace>>
DocKindEscaped == << <<"\\", "s">> \o kw_query \o <<"\\", "b">>, LBrace, FieldId, RBrace>>

Pad(n, ws) == [i \in 1..n |-> ws]

\* the text of a document: lead, gap and trail are the lengths of the
\* whitespace runs before, between and after its words
Render(words, layout) ==
    Pad(layout.lead, layout.ws)
        \o Join(Pad(layout.gap, layout.ws), words)
        \o Pad(layout.trail, layout.ws)

Tight == [lead |-> 0, gap |-> 1, trail |-> 0, ws |-> " "]

\* the tight layout, each run lengthened on its own, and every run
\* lengthened with another whitespace character
Layouts ==
    {Tight}
    \cup {[lead |-> n, gap |-> 1, trail |-> 0, ws |-> " "] : n \in 1..MaxPad}
    \cup {[lead |-> 0, gap |-> 1 + n, trail |-> 0, ws |-> " "] : n \in 1..MaxPad}
    \cup {[lead |-> 0, gap |-> 1, trail |-> n, ws |-> " "] : n \in 1..MaxPad}
    \cup {[lead |-> MaxPad, gap |-> 1 + MaxPad, trail |-> MaxPad, ws |-> "\n"]}

QueryBody(name, text, variables) == Body("dict", JStr(text), name, variables)

Decoded(body) == [t |-> "ok", value |-> body]
Raises == [t |-> "raise", value |-> NoBody]
RaisesOnAccess == [t |-> "access", value |-> NoBody]
Raw(t, body) == [t |-> t, value |-> body]

Post(body) ==
    [url |-> ENDPOINT, method |-> "POST", json |-> Decoded(body), raw |-> Raw("none", NoBody)]

ScenarioRequests ==
    {Post(QueryBody(JStr(NameG), Render(DocPlain, layout), Absent)) : layout \in Layouts}

DocumentRequests ==
    {Post(QueryBody(JStr(NameG), Render(d, Tight), Absent)) :
        d \in {DocTypename, DocSchema, DocType, DocSchemaEscaped, DocTypenameEscaped,
               DocMutation, DocKindEscaped}}

NamedRequests ==
    {Post(QueryBody(n, Render(DocPlain, Tight), Absent)) :
        n \in {Absent, JStr(<<" ">>), JStr(NameP)}}
    \cup {Post(QueryBody(JStr(NameG), Render(DocPlain, Tight), JObj(<<"first", "after">>)))}

NoQueryRequests ==
    {Post(Body("dict", q, JStr(NameG), Absent)) : q \in {Absent, JInt}}

PlainBody == QueryBody(JStr(NameG), Render(DocPlain, Tight), Absent)

BodyRequests ==
    {[url |-> ENDPOINT, method |-> "POST", json |-> Raises, raw |-> r] :
        r \in {Raw("raise", NoBody), Raw("none", NoBody), Raw("blank", NoBody),
               Raw("invalid", NoBody), Raw("json", ListBody), Raw("json", PlainBody)}}
    \cup {[url |-> ENDPOINT, method |-> "POST", json |-> Decoded(ListBody), raw |-> r] :
        r \in {Raw("none", NoBody), Raw("json", PlainBody)}}
    \cup {[url |-> ENDPOINT, method |-> "POST", json |-> RaisesOnAccess, raw |-> r] :
        r \in {Raw("none", NoBody), Raw("invalid", NoBody)}}

OffTargetRequests ==
    {[url |-> u, method |-> "POST", json |-> Decoded(PlainBody), raw |-> Raw("none", NoBody)] :
        u \in {EndpointWithQuery, OtherUrl}}
    \cup {[url |-> ENDPOINT, method |-> m, json |-> Decoded(PlainBody), raw |-> Raw("none", NoBody)] :
        m \in {"post", "GET"}}

Requests ==
    ScenarioRequests \cup DocumentRequests \cup NamedRequests \cup NoQueryRequests
        \cup BodyRequests \cup OffTargetRequests

(***************************************************************************)
(* capture_graphql_ops.py: main.on_request                                 *)
(***************************************************************************)
\* a counter that advances by two
Bump_twice(d, counter) == [d EXCEPT ![counter] = @ + 2]

Bump(d, counter) == [d EXCEPT ![counter] = @ + 1]

\* the callback as a function of the state it finds: the new store, the new
\* counters, and whether the request reached the store
on_request(store, d, req) ==
    LET Return(o, c, stored) == [ops |-> o, dbg |-> c, stored |-> stored, raised |-> FALSE]
    IN
    IF req.url # ENDPOINT THEN Return(store, d, FALSE)
    ELSE IF Upper(req.method) # "POST" THEN Return(store, d, FALSE)
    ELSE
      LET d1 == Bump(d, "graphql_seen")
          payload == try_request_json(req)
      IN  IF getattr_raises(req)
          THEN [ops |-> store, dbg |-> d1, stored |-> FALSE, raised |-> TRUE]
          ELSE IF payload.t # "dict" THEN Return(store, d1, FALSE)
          ELSE
            LET d2 == Bump(d1, "graphql_parsed")
            IN  IF ~IsStr(payload.query)
                THEN Return(store, Bump(d2, "graphql_skipped_no_query"), FALSE)
                ELSE IF is_introspection(payload.query.v)
                THEN Return(store, Bump(d2, "graphql_skipped_introspection"), FALSE)
                ELSE Return(Put(store, StoreKey(req, payload),
                                CapturedOperation(req, payload)), d2, TRUE)

\* one call of the callback on the state it finds
Deliver(req) ==
    LET r == on_request(ops, dbg, req)
    IN  /\ ops' = r.ops
        /\ dbg' = r.dbg
        /\ accepted' = IF r.stored THEN Append(accepted, req) ELSE accepted
        /\ last' = req
        /\ raised' = r.raised
        /\ delivered' = delivered + 1

OnRequest ==
    /\ delivered < MaxRequests
    /\ \E req \in Requests : Deliver(req)
    /\ UNCHANGED <<run, tokVars>>

NoRequest == [url |-> <<>>, method |-> "", json |-> Raises, raw |-> Raw("none", NoBody)]

NoManifest == [t |-> "none", count |-> 0, debug |-> <<>>, operations |-> {}]

\* main between its entry and the first statement named
RunAt(statement) ==
    [pc |-> statement, session |-> "closed", registered |-> FALSE, started |-> <<>>,
     missed |-> 0, manifest |-> NoManifest, exitCode |-> -1]

\* lines 137-143
CallbackInit ==
    /\ ops = <<>>
    /\ dbg = [graphql_seen |-> 0, graphql_parsed |-> 0,
              graphql_skipped_no_query |-> 0, graphql_skipped_introspection |-> 0]
    /\ delivered = 0
    /\ last = NoRequest
    /\ accepted = <<>>
    /\ raised = FALSE

CapInit ==
    /\ CallbackInit
    /\ run = RunAt("start")

CapNext == OnRequest

(***************************************************************************)
(* Properties of the capture callback                                      *)
(***************************************************************************)
PayloadOf(req) == try_request_json(req)
IdOf(req) == stable_id(operation_name_of(PayloadOf(req)), PayloadOf(req).query.v)
AcceptedIds == {IdOf(accepted[i]) : i \in 1..Len(accepted)}

\* C2 (dedup cardinality): the store has as many entries as there are
\* distinct StableId values among the accepted requests, whatever their
\* order and however often each was delivered, and every entry's stableId
\* field is the key it is stored under.
DedupCardinality ==
    /\ Cardinality(DOMAIN ops) = Cardinality(AcceptedIds)
    /\ \A k \in DOMAIN ops : ops[k].stableId = k

\* two different accepted requests that are duplicates under the StableId
DedupCardinalityWitness ==
    /\ Len(accepted) = 2
    /\ accepted[1] # accepted[2]
    /\ IdOf(accepted[1]) = IdOf(accepted[2])
    /\ Cardinality(DOMAIN ops) = 1

\* a name occurs in a text as a standalone token: the characters next to
\* the occurrence, if any, are not word characters
HasToken(text, name) ==
    \E i \in 1..(Len(text) - Len(name) + 1) :
        /\ SubSeq(text, i, i + Len(name) - 1) = name
        /\ (i > 1 => text[i - 1] \notin WordChars)
        /\ (i + Len(name) <= Len(text) => text[i + Len(name)] \notin WordChars)

HasIntrospectionToken(text) == HasToken(text, SchemaField) \/ HasToken(text, TypeField)

\* a POST to the endpoint whose JSON body has a string query
IsQueryRequest(req) ==
    /\ req.url = ENDPOINT
    /\ req.method = "POST"
    /\ PayloadOf(req).t = "dict"
    /\ IsStr(PayloadOf(req).query)

QueryOf(req) == PayloadOf(req).query.v

\* C3 (introspection filter): a POST to the endpoint whose string query
\* contains __schema or __type as a standalone token adds one to the
\* skipped-introspection counter and leaves the store unchanged.
IntrospectionSkipped ==
    [][(IsQueryRequest(last') /\ HasIntrospectionToken(QueryOf(last')))
         => /\ dbg'.graphql_skipped_introspection = dbg.graphql_skipped_introspection + 1
            /\ ops' = ops]_capVars

\* the non-whitespace characters of a text, and the places (counted in
\* non-whitespace characters) at which whitespace separates two of them
Letters(text) == SelectSeq(text, LAMBDA c : ~IsSpace(c))
Breaks(text) ==
    {Len(Letters(SubSeq(text, 1, i))) : i \in {j \in 1..Len(text) : IsSpace(text[j])}}
        \ {0, Len(Letters(text))}

\* two texts differ at most in leading whitespace, trailing whitespace and
\* the length (and characters) of their internal whitespace runs
DifferOnlyInWhitespace(a, b) == Letters(a) = Letters(b) /\ Breaks(a) = Breaks(b)

\* C4 (StableId determinism): two accepted payloads with equal operationName
\* whose query texts differ only in whitespace have the same StableId, and
\* the store holds exactly one entry for the two.
StableIdDeterminism ==
    \A i, j \in 1..Len(accepted) :
        (/\ PayloadOf(accepted[i]).operationName = PayloadOf(accepted[j]).operationName
         /\ DifferOnlyInWhitespace(QueryOf(accepted[i]), QueryOf(accepted[j])))
        => /\ IdOf(accepted[i]) = IdOf(accepted[j])
           /\ Cardinality(DOMAIN ops \cap {IdOf(accepted[i]), IdOf(accepted[j])}) = 1

\* Scenario A: the tight text and a text with longer leading, internal and
\* trailing runs were both accepted and share one entry
StableIdDeterminismWitness ==
    \E i, j \in 1..Len(accepted) :
        /\ QueryOf(accepted[i]) = Render(DocPlain, Tight)
        /\ QueryOf(accepted[j]) =
             Render(DocPlain, [lead |-> MaxPad, gap |-> 1 + MaxPad, trail |-> MaxPad, ws |-> "\n"])
        /\ PayloadOf(accepted[i]).operationName = PayloadOf(accepted[j]).operationName
        /\ Cardinality(DOMAIN ops) = 1

\* C5 (__typename is not introspection): a POST to the endpoint whose string
\* query contains __typename and no standalone __schema or __type leaves
\* the skipped-introspection counter unchanged and is stored under its
\* StableId.
TypenameRetained ==
    [][(/\ IsQueryRequest(last')
        /\ Contains(QueryOf(last'), Typename)
        /\ ~HasIntrospectionToken(QueryOf(last')))
         => /\ dbg'.graphql_skipped_introspection = dbg.graphql_skipped_introspection
            /\ IdOf(last') \in DOMAIN ops'
            /\ ops'[IdOf(last')].query = QueryOf(last')]_capVars

TypenameRetainedWitness ==
    /\ IsQueryRequest(last)
    /\ Contains(QueryOf(last), Typename)
    /\ ~HasIntrospectionToken(QueryOf(last))
    /\ IdOf(last) \in DOMAIN ops
    /\ dbg.graphql_skipped_introspection = 0

\* a POST to the endpoint whose pre-parsed accessor fails or yields something
\* that is not an object, and whose raw body is missing, empty, not valid
\* JSON, or JSON that is not an object
BodyFailure(req) ==
    /\ req.url = ENDPOINT
    /\ Upper(req.method) = "POST"
    /\ (req.json.t \in {"raise", "access"} \/ req.json.value.t # "dict")
    /\ \/ req.raw.t \in {"none", "blank", "invalid"}
       \/ req.raw.t = "json" /\ req.raw.value.t # "dict"

\* C11 (body failures are absorbed): for a POST to the endpoint whose
\* pre-parsed accessor fails or yields a non-object and whose raw body is
\* missing, empty, invalid JSON or not an object, the callback returns
\* normally, adds one to the seen counter and changes no other counter and
\* no store entry.
BodyFailuresAbsorbed ==
    [][BodyFailure(last')
         => /\ ~raised'
            /\ dbg' = Bump(dbg, "graphql_seen")
            /\ ops' = ops]_capVars

\* the position in the history of the latest accepted request with this StableId
LatestAccepted(id) ==
    CHOOSE i \in 1..Len(accepted) :
        /\ IdOf(accepted[i]) = id
        /\ \A j \in (i + 1)..Len(accepted) : IdOf(accepted[j]) # id

\* the six fields of a request as the callback derives them
FieldsOf(req) ==
    [operationName |-> operation_name_of(PayloadOf(req)),
     kind |-> operation_kind(QueryOf(req)),
     url |-> req.url,
     method |-> req.method,
     variableKeys |-> variable_keys_of(PayloadOf(req)),
     query |-> QueryOf(req)]

EntryFields(entry) ==
    [operationName |-> entry.operationName, kind |-> entry.kind, url |-> entry.url,
     method |-> entry.method, variableKeys |-> entry.variableKeys, query |-> entry.query]

\* C13 (last write wins): the entry under each StableId holds the
\* operationName, kind, url, method, variableKeys and query of the most
\* recently accepted request with that StableId, and accepting a request
\* changes no entry other than the one under its own StableId.
LastWriteWins ==
    /\ [](\A id \in DOMAIN ops :
            EntryFields(ops[id]) = FieldsOf(accepted[LatestAccepted(id)]))
    /\ [][accepted' # accepted
            => /\ DOMAIN ops' = DOMAIN ops \cup {IdOf(last')}
               /\ \A id \in DOMAIN ops \ {IdOf(last')} : ops'[id] = ops[id]]_capVars

\* two accepted requests with one StableId whose fields differ: the entry is
\* the later one's
LastWriteWinsWitness ==
    /\ Len(accepted) = 2
    /\ IdOf(accepted[1]) = IdOf(accepted[2])
    /\ FieldsOf(accepted[1]) # FieldsOf(accepted[2])
    /\ EntryFields(ops[IdOf(accepted[2])]) = FieldsOf(accepted[2])

\* a text begins, after optional leading whitespace, with the keyword as a
\* whole word
BeginsWithKeyword(text, kw) ==
    LET t == LStrip(text)
    IN  /\ StartsWith(t, kw)
        /\ (Len(t) > Len(kw) => t[Len(kw) + 1] \notin WordChars)

LeadingKeyword(text) ==
    IF \E k \in 1..Len(Keywords) : BeginsWithKeyword(text, Keywords[k])
    THEN Keywords[CHOOSE k \in 1..Len(Keywords) : BeginsWithKeyword(text, Keywords[k])]
    ELSE <<"u","n","k","n","o","w","n">>

\* C16 (kind classification): every stored entry's kind is the keyword
\* query, mutation or subscription with which its query text begins, as a
\* whole word after optional leading whitespace, and unknown when it begins
\* with none of them.
KindClassification ==
    \A id \in DOMAIN ops : ops[id].kind = LeadingKeyword(ops[id].query)

Counters ==
    {"graphql_seen", "graphql_parsed", "graphql_skipped_no_query",
     "graphql_skipped_introspection"}

\* the request is one for the callback: its URL is the endpoint and its
\* method is POST in any letter case
OnTarget(req) == req.url = ENDPOINT /\ Upper(req.method) = "POST"

\* C20 (counter invariant): seen >= parsed >= skippedNoQuery +
\* skippedIntrospection, the number of accepted requests is parsed -
\* skippedNoQuery - skippedIntrospection and bounds the store size; each
\* request changes each counter by zero or one, and a request whose URL is
\* not the endpoint or whose method is not POST changes no counter and no
\* store entry.
CounterInvariant ==
    /\ [](/\ dbg.graphql_seen >= dbg.graphql_parsed
          /\ dbg.graphql_parsed
               >= dbg.graphql_skipped_no_query + dbg.graphql_skipped_introspection
          /\ Len(accepted) = dbg.graphql_parsed - dbg.graphql_skipped_no_query
                                - dbg.graphql_skipped_introspection
          /\ Cardinality(DOMAIN ops) <= Len(accepted))
    /\ [][/\ \A c \in Counters : dbg'[c] \in {dbg[c], dbg[c] + 1}
          /\ ~OnTarget(last') => dbg' = dbg /\ ops' = ops]_capVars

\* a request was accepted and the next one was turned away by the URL or
\* method test
CounterInvariantWitness ==
    /\ Len(accepted) = 1
    /\ dbg.graphql_seen = 1 /\ dbg.graphql_parsed = 1
    /\ Cardinality(DOMAIN ops) = 1
    /\ ~OnTarget(last)
    /\ delivered = 2

(***************************************************************************)
(* get_token.py: text helpers                                              *)
(***************************************************************************)
\* str.lower() on the letters that occur
LowerChar(c) ==
    IF c = "B" THEN "b" ELSE IF c = "E" THEN "e" ELSE IF c = "R" THEN "r"
    ELSE IF c = "A" THEN "a" ELSE IF c = "P" THEN "p" ELSE c

Lower(s) == [i \in 1..Len(s) |-> LowerChar(s[i])]

\* s.split(sep, 1): one part when sep does not occur, else the text before
\* the first sep and the text after it
SplitFirst(s, sep) ==
    IF \E i \in 1..Len(s) : s[i] = sep
    THEN LET i == CHOOSE k \in 1..Len(s) : s[k] = sep /\ \A j \in 1..(k - 1) : s[j] # sep
         IN  <<SubSeq(s, 1, i - 1), SubSeq(s, i + 1, Len(s))>>
    ELSE <<s>>

\* Python truthiness of an optional string: None and "" are false
Truthy(x) == x.t = "str" /\ x.v # <<>>

(***************************************************************************)
(* get_token.py: load_creds                                                *)
(***************************************************************************)
KeyEmail == <<"e","m","a","i","l">>
KeyPassword == <<"p","a","s","s","w","o","r","d">>

\* the loop over the lines of the file, carrying email and password
RECURSIVE ReadLines(_, _, _)
ReadLines(lines, em, pw) ==
    IF lines = <<>> THEN [email |-> em, password |-> pw]
    ELSE
      LET line == Strip(Head(lines))
      IN  IF line = <<>> \/ StartsWith(line, <<"#">>) THEN ReadLines(Tail(lines), em, pw)
          ELSE IF ~InSeq("=", line) THEN ReadLines(Tail(lines), em, pw)
          ELSE
            LET kv == SplitFirst(line, "=")
                k == Lower(Strip(kv[1]))
                v == Strip(kv[2])
            IN  IF k = KeyEmail THEN ReadLines(Tail(lines), JStr(v), pw)
                ELSE IF k = KeyPassword THEN ReadLines(Tail(lines), em, JStr(v))
                ELSE ReadLines(Tail(lines), em, pw)

\* the outcome of load_creds(path): the pair, SystemExit with a message, or
\* the error raised by read_text when the file cannot be read
load_creds(file) ==
    IF file.t = "missing"
    THEN [t |-> "error", email |-> None, password |-> None]
    ELSE
      LET r == ReadLines(file.lines, None, None)
      IN  IF ~Truthy(r.email) \/ ~Truthy(r.password)
          THEN [t |-> "system_exit", email |-> None, password |-> None]
          ELSE [t |-> "ok", email |-> r.email, password |-> r.password]

(***************************************************************************)
(* get_token.py: main.on_request                                           *)
(***************************************************************************)
\* the callback as a function of the token it finds and the request
token_on_request(tok, req) ==
    IF tok.t # "none" THEN tok
    ELSE IF ~StartsWith(req.url, ENDPOINT) THEN tok
    ELSE IF ~Truthy(req.authorization) THEN tok
    ELSE
      LET parts == SplitFirst(req.authorization.v, " ")
      IN  IF Len(parts) = 2 /\ Lower(parts[1]) = <<"b","e","a","r","e","r">>
          THEN JStr(Strip(parts[2]))
          ELSE tok

(***************************************************************************)
(* The inputs of a token-capture run                                       *)
(***************************************************************************)
Modes == {"interactive", "email-link", "credentials", "session"}

LineComment == <<"#", " ", "x">>
LineEmail == <<"e","m","a","i","l","=","a">>
LineEmailLoose == <<" ","E","m","a","i","l"," ","="," ","a"," ">>
LinePassword == <<"p","a","s","s","w","o","r","d","=","p">>
LineNoValue == <<"p","a","s","s","w","o","r","d","=">>

MissingFile == [t |-> "missing", lines |-> <<>>]
File(lines) == [t |-> "file", lines |-> lines]

SecretsFiles ==
    {MissingFile,
     File(<<LineComment, LineEmailLoose, LinePassword>>),
     File(<<LineEmail>>),
     File(<<LinePassword>>),
     File(<<LineEmail, LineNoValue>>)}

EmailOptions == {None, JStr(<<" ">>), JStr(<<" ", "a">>)}

Timeouts == 0..MaxTimeout

Configurations ==
    {[mode |-> m, email |-> e, secrets_file |-> f, user_data_dir |-> u, timeout_seconds |-> t] :
        m \in Modes, e \in EmailOptions, f \in SecretsFiles, u \in BOOLEAN, t \in Timeouts}

\* the options a mode reads; the others are left at one value
Relevant(c) ==
    /\ c.mode \in {"interactive", "session"} => c.email = None /\ c.secrets_file = MissingFile
    /\ c.mode = "credentials" => c.email = None
    /\ (c.mode = "email-link" /\ Truthy(c.email) /\ Truthy(JStr(Strip(c.email.v))))
         => c.secrets_file = MissingFile

\* Authorization header values
BearerA == <<"B","e","a","r","e","r"," ","A">>
BearerB == <<"b","E","A","R","e","r"," "," ","B"," ">>
BearerEmpty == <<"B","e","a","r","e","r"," ">>
BearerOnly == <<"B","e","a","r","e","r">>
BasicA == <<"B","a","s","i","c"," ","A">>

TokenRequest(url, authorization) == [url |-> url, authorization |-> authorization]

TokenRequests ==
    {TokenRequest(ENDPOINT, a) :
        a \in {None, JStr(<<>>), JStr(BearerA), JStr(BearerB), JStr(BearerEmpty),
               JStr(BearerOnly), JStr(BasicA)}}
    \cup {TokenRequest(u, JStr(BearerA)) : u \in {EndpointWithQuery, OtherUrl}}

(***************************************************************************)
(* get_token.py: main                                                      *)
(***************************************************************************)
PollTicks == 40          \* range(40) in the two locator loops
TicksPerSecond == 4      \* one poll interval is wait_for_timeout(250)
ExitOk == 0              \* return 0
ExitInvalidInput == 2    \* return 2
ExitNoToken == 1         \* return 1
ExitSystemExit == 1      \* raise SystemExit(<message>): the status Python gives a message
ExitUncaught == 1        \* an exception that leaves main: the status Python gives a traceback

Max(a, b) == IF a >= b THEN a ELSE b

\* print(token): the token followed by a newline
WriteToken_with_newline(out, tok) == Append(out, tok.v \o <<"\n">>)

\* sys.stdout.write(token)
WriteToken(out, tok) == Append(out, tok.v)

\* leaving the `with sync_playwright()` block ends a session that is open
Left(s) == IF s = "open" THEN "ended" ELSE s

Exit(code, message) ==
    /\ pc' = "exit"
    /\ exitCode' = code
    /\ stderr' = Append(stderr, message)
    /\ session' = Left(session)

Begin(step) == started' = Append(started, step)

\* lines 77-92
LoadInputs ==
    /\ pc = "start"
    /\ IF args.mode = "credentials"
       THEN LET r == load_creds(args.secrets_file)
            IN  IF r.t = "ok"
                THEN /\ email' = r.email
                     /\ password' = r.password
                     /\ pc' = "launch"
                     /\ UNCHANGED <<exitCode, stderr, session>>
                ELSE /\ IF r.t = "system_exit"
                        THEN Exit(ExitSystemExit, "Missing email/password")
                        ELSE Exit(ExitUncaught, "traceback")
                     /\ UNCHANGED <<email, password>>
       ELSE IF args.mode = "email-link"
       THEN LET r == load_creds(args.secrets_file)
                e == IF Truthy(args.email) THEN JStr(Strip(args.email.v))
                     ELSE IF r.t = "ok" THEN r.email ELSE None
            IN  IF ~Truthy(args.email) /\ r.t = "system_exit"
                THEN /\ Exit(ExitSystemExit, "Missing email/password")
                     /\ UNCHANGED <<email, password>>
                ELSE IF ~Truthy(e)
                THEN /\ Exit(ExitInvalidInput, "--email is required")
                     /\ email' = e
                     /\ UNCHANGED password
                ELSE /\ email' = e
                     /\ pc' = "launch"
                     /\ UNCHANGED <<password, exitCode, stderr, session>>
       ELSE /\ pc' = "launch"
            /\ UNCHANGED <<email, password, exitCode, stderr, session>>
    /\ started' = IF args.mode = "credentials" \/ (args.mode = "email-link" /\ ~Truthy(args.email))
                  THEN Append(started, "load_creds") ELSE started
    /\ UNCHANGED <<args, tick, token, registered, now, deadline, stdout, exhausted, sent,
                   firstQualifying, offered, missed, capVars>>

\* lines 96-106
Launch ==
    /\ pc = "launch"
    /\ session' = "open"
    /\ Begin("launch")
    /\ pc' = "register"
    /\ UNCHANGED <<args, tick, email, password, token, registered, now, deadline, exitCode,
                   stdout, stderr, exhausted, sent, firstQualifying, offered, missed, capVars>>

\* line 122
Register ==
    /\ pc = "register"
    /\ registered' = TRUE
    /\ Begin("register")
    /\ pc' = "goto"
    /\ UNCHANGED <<args, tick, email, password, token, session, now, deadline, exitCode,
                   stdout, stderr, exhausted, sent, firstQualifying, offered, missed, capVars>>

LoginMode == args.mode \in {"email-link", "credentials"}

\* lines 177-180: page.goto raises when the page does not load in time
Navigate ==
    /\ pc = "goto"
    /\ Begin(IF LoginMode THEN "goto:/login" ELSE "goto:/")
    /\ \E loaded \in BOOLEAN :
         IF loaded
         THEN /\ pc' = "branch"
              /\ UNCHANGED <<exitCode, stderr, session>>
         ELSE Exit(ExitUncaught, "traceback")
    /\ UNCHANGED <<args, tick, email, password, token, registered, now, deadline, stdout,
                   exhausted, sent, firstQualifying, offered, missed, capVars>>

\* lines 181-194, 208-212: the branch on the mode
Branch ==
    /\ pc = "branch"
    /\ IF args.mode = "session"
       THEN pc' = "deadline" /\ UNCHANGED stderr
       ELSE IF args.mode = "interactive"
       THEN pc' = "deadline" /\ stderr' = Append(stderr, "Waiting for you to log in")
       ELSE pc' = "click_continue_with_email" /\ UNCHANGED stderr
    /\ tick' = 0
    /\ UNCHANGED <<args, email, password, token, session, registered, now, deadline, exitCode,
                   stdout, started, exhausted, sent, firstQualifying, offered, missed, capVars>>

\* lines 124-140, one iteration of the loop: some candidate is found and
\* clicked, or every candidate fails (count() = 0 or an exception) and the
\* loop waits; after the last iteration the function returns.  The caller
\* (lines 191-194, 209-212) goes on either way.
ClickContinueWithEmail ==
    /\ pc = "click_continue_with_email"
    /\ started' = IF tick = 0 THEN Append(started, "click_continue_with_email") ELSE started
    /\ \E found \in BOOLEAN :
         IF found
         THEN /\ pc' = "pause"
              /\ tick' = 0
              /\ UNCHANGED exhausted
         ELSE IF tick + 1 < PollTicks
         THEN /\ tick' = tick + 1
              /\ UNCHANGED <<pc, exhausted>>
         ELSE /\ pc' = "pause"
              /\ tick' = 0
              /\ exhausted' = exhausted \cup {"click_continue_with_email"}
    /\ UNCHANGED <<args, email, password, token, session, registered, now, deadline, exitCode,
                   stdout, stderr, sent, firstQualifying, offered, missed, capVars>>

\* lines 195, 213
Pause ==
    /\ pc = "pause"
    /\ pc' = "fill_email_address"
    /\ UNCHANGED <<args, tick, email, password, token, session, registered, now, deadline,
                   exitCode, stdout, stderr, started, exhausted, sent, firstQualifying, offered, missed, capVars>>

\* the loop of lines 142-158 without the raise that follows it
FillEmailAddress_returns ==
    /\ pc = "fill_email_address"
    /\ started' = IF tick = 0 THEN Append(started, "fill_email_address") ELSE started
    /\ \E found \in BOOLEAN :
         IF found
         THEN /\ pc' = "click_continue"
              /\ tick' = 0
              /\ UNCHANGED exhausted
         ELSE IF tick + 1 < PollTicks
         THEN /\ tick' = tick + 1
              /\ UNCHANGED <<pc, exhausted>>
         ELSE /\ pc' = "click_continue"
              /\ tick' = 0
              /\ exhausted' = exhausted \cup {"fill_email_address"}
    /\ UNCHANGED <<args, email, password, token, session, registered, now, deadline, exitCode,
                   stdout, stderr, sent, firstQualifying, offered, missed, capVars>>

\* lines 142-159, one iteration of the loop
FillEmailAddress ==
    /\ pc = "fill_email_address"
    /\ started' = IF tick = 0 THEN Append(started, "fill_email_address") ELSE started
    /\ \E found \in BOOLEAN :
         IF found
         THEN /\ pc' = "click_continue"
              /\ tick' = 0
              /\ UNCHANGED <<exhausted, exitCode, stderr, session>>
         ELSE IF tick + 1 < PollTicks
         THEN /\ tick' = tick + 1
              /\ UNCHANGED <<pc, exhausted, exitCode, stderr, session>>
         ELSE /\ Exit(ExitSystemExit, "could not find email input")
              /\ tick' = 0
              /\ exhausted' = exhausted \cup {"fill_email_address"}
    /\ UNCHANGED <<args, email, password, token, registered, now, deadline, stdout, sent,
                   firstQualifying, offered, missed, capVars>>

\* lines 161-175: a named button is clicked, or none is and the first
\* button of the page is, or that click fails too
ClickContinue ==
    /\ pc = "click_continue"
    /\ Begin("click_continue")
    /\ \E clicked \in {"named", "first button", "none"} :
         IF clicked # "none"
         THEN /\ pc' = IF args.mode = "email-link" THEN "prompt" ELSE "password_instead"
              /\ UNCHANGED <<exhausted, exitCode, stderr, session>>
         ELSE /\ Exit(ExitSystemExit, "could not click Continue")
              /\ exhausted' = exhausted \cup {"click_continue"}
    /\ UNCHANGED <<args, tick, email, password, token, registered, now, deadline, stdout, sent,
                   firstQualifying, offered, missed, capVars>>

\* lines 199-206: the operator's input; browser is bound only when the
\* session was launched without a user-data-dir
PromptLink ==
    /\ pc = "prompt"
    /\ Begin("prompt")
    /\ \E http \in BOOLEAN :
         IF http
         THEN /\ pc' = "goto_link"
              /\ UNCHANGED <<exitCode, stderr, session>>
         ELSE IF args.user_data_dir
         THEN /\ pc' = "exit"
              /\ exitCode' = ExitUncaught
              /\ stderr' = stderr \o <<"invalid link", "traceback">>
              /\ session' = Left(session)
         ELSE /\ pc' = "exit"
              /\ exitCode' = ExitInvalidInput
              /\ stderr' = Append(stderr, "invalid link")
              /\ session' = "closed"
    /\ UNCHANGED <<args, tick, email, password, token, registered, now, deadline, stdout,
                   exhausted, sent, firstQualifying, offered, missed, capVars>>

\* line 207
GotoLink ==
    /\ pc = "goto_link"
    /\ Begin("goto:link")
    /\ \E loaded \in BOOLEAN :
         IF loaded
         THEN /\ pc' = "deadline"
              /\ UNCHANGED <<exitCode, stderr, session>>
         ELSE Exit(ExitUncaught, "traceback")
    /\ UNCHANGED <<args, tick, email, password, token, registered, now, deadline, stdout,
                   exhausted, sent, firstQualifying, offered, missed, capVars>>

\* lines 217-218: either call raises when its element does not appear
PasswordInstead ==
    /\ pc = "password_instead"
    /\ Begin("password")
    /\ \E done \in BOOLEAN :
         IF done
         THEN /\ pc' = "submit"
              /\ UNCHANGED <<exitCode, stderr, session>>
         ELSE Exit(ExitUncaught, "traceback")
    /\ UNCHANGED <<args, tick, email, password, token, registered, now, deadline, stdout,
                   exhausted, sent, firstQualifying, offered, missed, capVars>>

SubmitLabels == <<"Sign in", "Continue", "Log in">>

\* what the loop of lines 219-223 does with the label at each position
SubmitNoMatch == <<"Sign in: no match", "Continue: no match", "Log in: no match">>
SubmitMatch == <<"Sign in: match", "Continue: match", "Log in: match">>
SubmitClick == <<"click Sign in", "click Continue", "click Log in">>

\* matches[i] is whether btn.count() > 0 for the button named SubmitLabels[i]
FirstMatch(matches) ==
    IF \E i \in 1..Len(matches) : matches[i]
    THEN CHOOSE i \in 1..Len(matches) : matches[i] /\ \A j \in 1..(i - 1) : ~matches[j]
    ELSE 0

\* the loop: each label is evaluated in order; the first with a match is
\* clicked and ends the loop, and with no match the loop runs out
SubmitLoop(matches) ==
    LET f == FirstMatch(matches)
        n == IF f = 0 THEN Len(SubmitLabels) ELSE f - 1
    IN  [j \in 1..n |-> SubmitNoMatch[j]]
            \o (IF f = 0 THEN <<>> ELSE <<SubmitMatch[f], SubmitClick[f]>>)

\* lines 219-223; btn.first.click() raises when the click does not get through
Submit ==
    /\ pc = "submit"
    /\ \E matches \in [1..Len(SubmitLabels) -> BOOLEAN], clicked \in BOOLEAN :
         /\ started' = started \o <<"submit">> \o SubmitLoop(matches)
         /\ IF FirstMatch(matches) # 0 /\ ~clicked
            THEN Exit(ExitUncaught, "traceback")
            ELSE /\ pc' = "deadline"
                 /\ UNCHANGED <<exitCode, stderr, session>>
    /\ UNCHANGED <<args, tick, email, password, token, registered, now, deadline, stdout,
                   exhausted, sent, firstQualifying, offered, missed, capVars>>

\* line 225; the clock is counted from this reading
SetDeadline ==
    /\ pc = "deadline"
    /\ deadline' = now + Max(1, args.timeout_seconds) * TicksPerSecond
    /\ pc' = "wait"
    /\ UNCHANGED <<args, tick, email, password, token, session, registered, now, exitCode,
                   stdout, stderr, started, exhausted, sent, firstQualifying, offered, missed, capVars>>

\* the loop condition with the deadline included in the wait
Waiting_through_deadline(tok) == tok.t = "none" /\ now <= deadline

\* while token is None and time.time() < deadline
Waiting(tok) == tok.t = "none" /\ now < deadline

\* lines 226-227
WaitPoll ==
    /\ pc = "wait"
    /\ Waiting(token)
    /\ now' = now + 1
    /\ UNCHANGED <<args, pc, tick, email, password, token, session, registered, deadline,
                   exitCode, stdout, stderr, started, exhausted, sent, firstQualifying, offered, missed, capVars>>

\* lines 229-232
Close ==
    /\ pc = "wait"
    /\ ~Waiting(token)
    /\ session' = "closed"
    /\ Begin("close")
    /\ pc' = "report"
    /\ UNCHANGED <<args, tick, email, password, token, registered, now, deadline, exitCode,
                   stdout, stderr, exhausted, sent, firstQualifying, offered, missed, capVars>>

\* lines 234-246
Report ==
    /\ pc = "report"
    /\ pc' = "exit"
    /\ IF ~Truthy(token)
       THEN /\ exitCode' = ExitNoToken
            /\ stderr' = Append(stderr,
                 IF args.mode = "session" /\ args.user_data_dir
                 THEN "failed to capture token using persisted session"
                 ELSE "failed to capture token")
            /\ UNCHANGED stdout
       ELSE /\ stdout' = WriteToken(stdout, token)
            /\ exitCode' = ExitOk
            /\ UNCHANGED stderr
    /\ UNCHANGED <<args, tick, email, password, token, session, registered, now, deadline,
                   started, exhausted, sent, firstQualifying, offered, missed, capVars>>

\* a request qualifies: it goes to the endpoint and its Authorization
\* header has a first space with the scheme "bearer", in any case, before it
Qualifies(req) ==
    /\ req.url = ENDPOINT
    /\ req.authorization.t = "str"
    /\ \E i \in 1..Len(req.authorization.v) :
         /\ req.authorization.v[i] = " "
         /\ \A j \in 1..(i - 1) : req.authorization.v[j] # " "
         /\ Lower(SubSeq(req.authorization.v, 1, i - 1)) = <<"b","e","a","r","e","r">>

Remainder(req) ==
    LET a == req.authorization.v
        i == CHOOSE k \in 1..Len(a) : a[k] = " " /\ \A j \in 1..(k - 1) : a[j] # " "
    IN  JStr(Strip(SubSeq(a, i + 1, Len(a))))

\* some page.goto of the session has been issued
Navigated ==
    \E i \in 1..Len(started) : started[i] \in {"goto:/", "goto:/login", "goto:link"}

\* the page issues a request: a new page is blank and issues none before the
\* first page.goto; from then on any step of the open session can cause
\* one.  The browser hands it to the callback registered at line 122
\* (lines 108-120); with no callback registered nobody hears it.
TokenOnRequest ==
    /\ session = "open"
    /\ Navigated
    /\ pc # "exit"
    /\ sent < MaxSent
    /\ \E req \in TokenRequests :
         IF registered
         THEN /\ token' = token_on_request(token, req)
              /\ firstQualifying' =
                   IF firstQualifying.t = "none" /\ Qualifies(req) THEN Remainder(req)
                   ELSE firstQualifying
              /\ offered' = req.url
              /\ UNCHANGED missed
         ELSE /\ missed' = missed + 1
              /\ UNCHANGED <<token, firstQualifying, offered>>
    /\ sent' = sent + 1
    /\ UNCHANGED <<args, pc, tick, email, password, session, registered, now, deadline,
                   exitCode, stdout, stderr, started, exhausted, capVars>>

TokRest ==
    /\ tick = 0
    /\ email = None
    /\ password = None
    /\ token = None
    /\ session = "closed"
    /\ registered = FALSE
    /\ now = 0
    /\ deadline = 0
    /\ exitCode = -1
    /\ stdout = <<>>
    /\ stderr = <<>>
    /\ started = <<>>
    /\ exhausted = {}
    /\ sent = 0
    /\ firstQualifying = None
    /\ offered = <<>>
    /\ missed = 0

TokStart ==
    /\ pc = "start"
    /\ TokRest

TokInit ==
    /\ args \in {c \in Configurations : Relevant(c)}
    /\ TokStart

TokNext ==
    \/ LoadInputs
    \/ Launch
    \/ Register
    \/ Navigate
    \/ Branch
    \/ ClickContinueWithEmail
    \/ Pause
    \/ FillEmailAddress
    \/ ClickContinue
    \/ PromptLink
    \/ GotoLink
    \/ PasswordInstead
    \/ Submit
    \/ SetDeadline
    \/ WaitPoll
    \/ Close
    \/ Report
    \/ TokenOnRequest

(***************************************************************************)
(* capture_graphql_ops.py: main                                            *)
(***************************************************************************)
RunExit(code) ==
    run' = [run EXCEPT !.pc = "exit", !.exitCode = code, !.session = Left(@)]

RunStep(statement, step) ==
    run' = [run EXCEPT !.pc = statement, !.started = Append(@, step)]

\* lines 130-135: load_credentials reads the file as load_creds does
RunLoad ==
    /\ run.pc = "start"
    /\ \E file \in SecretsFiles :
         LET r == load_creds(file)
         IN  IF r.t = "ok" THEN run' = [run EXCEPT !.pc = "launch"]
             ELSE IF r.t = "system_exit" THEN RunExit(ExitSystemExit)
             ELSE RunExit(ExitUncaught)
    /\ UNCHANGED <<callbackVars, tokVars>>

\* lines 188-190
RunLaunch ==
    /\ run.pc = "launch"
    /\ run' = [run EXCEPT !.pc = "register", !.session = "open",
                          !.started = Append(@, "launch")]
    /\ UNCHANGED <<callbackVars, tokVars>>

\* the statement that goes on to the navigation without page.on
RunRegister_omitted ==
    /\ run.pc = "register"
    /\ run' = [run EXCEPT !.pc = "goto"]
    /\ UNCHANGED <<callbackVars, tokVars>>

\* line 191
RunRegister ==
    /\ run.pc = "register"
    /\ run' = [run EXCEPT !.pc = "goto", !.registered = TRUE,
                          !.started = Append(@, "register")]
    /\ UNCHANGED <<callbackVars, tokVars>>

\* line 193: page.goto raises when the page does not load in time
RunNavigate ==
    /\ run.pc = "goto"
    /\ \E loaded \in BOOLEAN :
         IF loaded THEN RunStep("login", "goto:/")
         ELSE run' = [run EXCEPT !.pc = "exit", !.exitCode = ExitUncaught,
                                 !.session = Left(@), !.started = Append(@, "goto:/")]
    /\ UNCHANGED <<callbackVars, tokVars>>

\* lines 194-199: each call raises when its element does not appear
RunLogin ==
    /\ run.pc = "login"
    /\ \E done \in BOOLEAN :
         IF done THEN RunStep("submit", "login")
         ELSE run' = [run EXCEPT !.pc = "exit", !.exitCode = ExitUncaught,
                                 !.session = Left(@), !.started = Append(@, "login")]
    /\ UNCHANGED <<callbackVars, tokVars>>

\* lines 200-204: the loop of get_token.py:219-223
RunSubmit ==
    /\ run.pc = "submit"
    /\ \E matches \in [1..Len(SubmitLabels) -> BOOLEAN], clicked \in BOOLEAN :
         IF FirstMatch(matches) # 0 /\ ~clicked
         THEN run' = [run EXCEPT !.pc = "exit", !.exitCode = ExitUncaught,
                                 !.session = Left(@),
                                 !.started = @ \o <<"submit">> \o SubmitLoop(matches)]
         ELSE run' = [run EXCEPT !.pc = "settle",
                                 !.started = @ \o <<"submit">> \o SubmitLoop(matches)]
    /\ UNCHANGED <<callbackVars, tokVars>>

\* lines 206-209
RunSettle ==
    /\ run.pc = "settle"
    /\ \E done \in BOOLEAN :
         IF done THEN RunStep("transactions", "settle")
         ELSE run' = [run EXCEPT !.pc = "exit", !.exitCode = ExitUncaught,
                                 !.session = Left(@), !.started = Append(@, "settle")]
    /\ UNCHANGED <<callbackVars, tokVars>>

\* lines 210-216
RunTransactions ==
    /\ run.pc = "transactions"
    /\ \E loaded \in BOOLEAN :
         IF loaded THEN RunStep("close", "goto:/transactions")
         ELSE run' = [run EXCEPT !.pc = "exit", !.exitCode = ExitUncaught,
                                 !.session = Left(@),
                                 !.started = Append(@, "goto:/transactions")]
    /\ UNCHANGED <<callbackVars, tokVars>>

\* the statement that goes on to the manifest with the browser left open
RunClose_leaves_open ==
    /\ run.pc = "close"
    /\ run' = [run EXCEPT !.pc = "count", !.started = Append(@, "close")]
    /\ UNCHANGED <<callbackVars, tokVars>>

\* line 217
RunClose ==
    /\ run.pc = "close"
    /\ run' = [run EXCEPT !.pc = "count", !.session = "closed",
                          !.started = Append(@, "close")]
    /\ UNCHANGED <<callbackVars, tokVars>>

\* line 225: "count": len(ops)
RunReadCount ==
    /\ run.pc = "count"
    /\ run' = [run EXCEPT !.pc = "operations",
                          !.manifest = [t |-> "partial", count |-> Cardinality(DOMAIN ops),
                                        debug |-> <<>>, operations |-> {}]]
    /\ UNCHANGED <<callbackVars, tokVars>>

\* line 227: "operations": list(ops.values())
RunReadOperations ==
    /\ run.pc = "operations"
    /\ run' = [run EXCEPT !.pc = "dumps",
                          !.manifest.operations = {ops[k] : k \in DOMAIN ops}]
    /\ UNCHANGED <<callbackVars, tokVars>>

\* lines 221-233: json.dumps serialises the dict, reading the counters of
\* the dbg object that line 226 put into it, and the text is written
RunDumps ==
    /\ run.pc = "dumps"
    /\ run' = [run EXCEPT !.pc = "files", !.manifest.t = "written", !.manifest.debug = dbg]
    /\ UNCHANGED <<callbackVars, tokVars>>

\* lines 235-248
RunFiles ==
    /\ run.pc = "files"
    /\ run' = [run EXCEPT !.pc = "exit", !.exitCode = ExitOk]
    /\ UNCHANGED <<callbackVars, tokVars>>

\* page.goto of line 193 has been issued
RunNavigated == InSeq("goto:/", run.started)

\* the requests a capture session issues
RunRequests ==
    ScenarioRequests
        \cup {Post(QueryBody(JStr(NameP), Render(DocMutation, Tight), Absent)),
              Post(Body("dict", Absent, JStr(NameG), Absent)),
              [url |-> EndpointWithQuery, method |-> "POST", json |-> Decoded(PlainBody),
               raw |-> Raw("none", NoBody)],
              [url |-> ENDPOINT, method |-> "POST", json |-> RaisesOnAccess,
               raw |-> Raw("invalid", NoBody)]}

\* the page issues a request (none before the first page.goto) and the
\* browser hands it to the callback registered at line 191; an exception
\* that leaves the callback either is dropped by the event dispatch or ends
\* main.  With no callback registered nobody hears the request.
RunOnRequest ==
    /\ run.session = "open"
    /\ RunNavigated
    /\ run.pc # "exit"
    /\ delivered + run.missed < MaxRequests
    /\ \E req \in RunRequests, ends \in BOOLEAN :
         IF run.registered
         THEN /\ Deliver(req)
              /\ IF on_request(ops, dbg, req).raised /\ ends
                 THEN RunExit(ExitUncaught)
                 ELSE UNCHANGED run
         ELSE /\ run' = [run EXCEPT !.missed = @ + 1]
              /\ UNCHANGED callbackVars
    /\ UNCHANGED tokVars

RunNext ==
    \/ RunLoad
    \/ RunLaunch
    \/ RunRegister
    \/ RunNavigate
    \/ RunLogin
    \/ RunSubmit
    \/ RunSettle
    \/ RunTransactions
    \/ RunClose
    \/ RunReadCount
    \/ RunReadOperations
    \/ RunDumps
    \/ RunFiles
    \/ RunOnRequest

(***************************************************************************)
(* Specifications                                                          *)
(***************************************************************************)
\* the capture callback, with the token tool at rest
CaptureInit ==
    /\ CapInit
    /\ args = [mode |-> "interactive", email |-> None, secrets_file |-> MissingFile,
               user_data_dir |-> FALSE, timeout_seconds |-> 0]
    /\ TokStart

SpecCapture == CaptureInit /\ [][CapNext]_vars

\* a run of the token tool, with the capture tool at rest
TokenInit == TokInit /\ CapInit

SpecToken == TokenInit /\ [][TokNext]_vars

IdleArgs ==
    [mode |-> "interactive", email |-> None, secrets_file |-> MissingFile,
     user_data_dir |-> FALSE, timeout_seconds |-> 0]

\* a run of one of the two tools, the other one not started
ToolsInit ==
    \/ TokInit /\ CallbackInit /\ run = RunAt("off")
    \/ CapInit /\ args = IdleArgs /\ pc = "off" /\ TokRest

ToolsNext == TokNext \/ RunNext

SpecTools == ToolsInit /\ [][ToolsNext]_vars

\* the statements of main from the launch of the browser on, without the
\* callback
Session ==
    \/ Launch
    \/ Register
    \/ Navigate
    \/ Branch
    \/ ClickContinueWithEmail
    \/ Pause
    \/ FillEmailAddress
    \/ ClickContinue
    \/ PromptLink
    \/ GotoLink
    \/ PasswordInstead
    \/ Submit
    \/ SetDeadline
    \/ WaitPoll
    \/ Close
    \/ Report

\* main is one sequential thread: every call it makes in the session returns
\* or raises (the page calls carry timeouts, wait_for_timeout(250) returns
\* after its interval, the operator answers the prompt), so the statement it
\* is at is eventually executed.  Nothing obliges the page to issue requests.
SpecTokenFair == TokenInit /\ [][TokNext]_vars /\ WF_vars(Session)

(***************************************************************************)
(* Properties of the token callback                                        *)
(***************************************************************************)
\* C15 (endpoint filter): a request whose URL is not exactly the endpoint
\* URL, among them one that extends it with further characters, leaves the
\* token as the callback found it, whatever its Authorization header.
EndpointFilter ==
    [][(sent' = sent + 1 /\ registered /\ offered' # ENDPOINT) => token' = token]_tokVars

(***************************************************************************)
(* Properties of the submit loop                                           *)
(***************************************************************************)
Clicks == {i \in 1..Len(SubmitLabels) : InSeq(SubmitClick[i], started)}
Evaluated ==
    {i \in 1..Len(SubmitLabels) :
        InSeq(SubmitNoMatch[i], started) \/ InSeq(SubmitMatch[i], started)}

\* C17 (login submit tie-break): once the credentials flow has run the
\* submit loop, exactly one of the buttons Sign in, Continue, Log in has
\* been clicked; it is the first in that order with a match, and no later
\* label was evaluated or clicked.
SubmitTieBreak ==
    InSeq("submit", started)
        => \E i \in 1..Len(SubmitLabels) :
             /\ Clicks = {i}
             /\ InSeq(SubmitMatch[i], started)
             /\ \A j \in 1..(i - 1) : InSeq(SubmitNoMatch[j], started)
             /\ Evaluated = 1..i

(***************************************************************************)
(* Properties of the token tool                                            *)
(***************************************************************************)
Exited == pc = "exit"
Last(seq) == seq[Len(seq)]

\* C1 (token write-once): Token is the trimmed remainder of the first
\* qualifying request delivered to the callback (unset while there has been
\* none), and once it is set no later request changes it.
TokenWriteOnce ==
    [][/\ token.t # "none" => token' = token
       /\ token' = firstQualifying']_vars

\* the diagnostics of a run that fails
FailureMessages ==
    {"--email is required", "Missing email/password", "invalid link",
     "could not find email input", "could not click Continue",
     "failed to capture token", "failed to capture token using persisted session",
     "traceback"}

Failed == Exited /\ \E i \in 1..Len(stderr) : stderr[i] \in FailureMessages

\* C6 (failure output): a run that fails exits non-zero with nothing on
\* stdout; stdout is written at most once, only by the run that exits 0,
\* and what is written is the token, without a trailing newline.
FailureOutput ==
    /\ Len(stdout) <= 1
    /\ Failed => exitCode # 0 /\ stdout = <<>>
    /\ (Exited /\ exitCode # 0) => stdout = <<>>
    /\ (Exited /\ exitCode = 0) => Len(stdout) = 1 /\ ~Failed
    /\ stdout # <<>> =>
         /\ Exited /\ exitCode = 0
         /\ token.t = "str" /\ stdout[1] = token.v
         /\ stdout[1] # <<>> /\ Last(stdout[1]) # "\n"

\* Scenario B: timeout-seconds=1, no qualifying request, the deadline passed
FailureOutputWitness ==
    /\ Exited
    /\ args.timeout_seconds = 1
    /\ firstQualifying.t = "none" /\ token.t = "none"
    /\ now = deadline /\ now = TicksPerSecond
    /\ exitCode = 1
    /\ stdout = <<>>
    /\ Last(stderr) = "failed to capture token"

\* the run went through the wait for the token (lines 225-232)
Waited == InSeq("close", started)

\* C7 (success condition): a run that reaches the wait with Token set, or
\* whose Token is set during the wait, ends with exit status 0 and that
\* Token on stdout; a run fails after the wait only when the deadline has
\* passed with Token unset.
TokenSetEndsInDone ==
    /\ (Exited /\ Waited /\ token.t # "none") => exitCode = 0 /\ stdout = <<token.v>>
    /\ (Exited /\ Waited /\ exitCode # 0) => token.t = "none" /\ now >= deadline

\* what the secrets file supplies, read as load_creds reads it
Supplied(file) ==
    IF file.t = "missing" THEN [email |-> None, password |-> None]
    ELSE ReadLines(file.lines, None, None)

EmailArgument == IF Truthy(args.email) THEN JStr(Strip(args.email.v)) ELSE None

\* a required input is missing: credentials mode with a secrets file that
\* lacks the email or the password, email-link mode with no email
MissingInput ==
    \/ /\ args.mode = "credentials"
       /\ args.secrets_file.t = "file"
       /\ ~Truthy(Supplied(args.secrets_file).email) \/ ~Truthy(Supplied(args.secrets_file).password)
    \/ /\ args.mode = "email-link"
       /\ ~Truthy(EmailArgument)
       /\ ~Truthy(Supplied(args.secrets_file).email)

NoTokenCaptured == Exited /\ Waited /\ ~Truthy(token)

\* C8 (exit codes): success exits 0, a run that fails for a missing required
\* input exits with a non-zero code that is not the code of a run that
\* fails because no token was captured.
ExitCodes ==
    /\ (Exited /\ stdout # <<>>) => exitCode = 0
    /\ NoTokenCaptured => exitCode = ExitNoToken
    /\ (Exited /\ MissingInput) => exitCode \notin {0, ExitNoToken}

\* C9 (required credentials): interactive and session modes read no
\* credential; email-link mode with an email (from --email or from the
\* secrets file, with or without a password there) and credentials mode
\* with both fields open the browser session; a run with a required field
\* missing fails before a session is opened.
RequiredCredentials ==
    /\ args.mode \in {"interactive", "session"} => ~InSeq("load_creds", started)
    /\ (/\ pc # "start"
        /\ \/ /\ args.mode = "email-link"
              /\ Truthy(EmailArgument) \/ Truthy(Supplied(args.secrets_file).email)
           \/ /\ args.mode = "credentials"
              /\ Truthy(Supplied(args.secrets_file).email)
              /\ Truthy(Supplied(args.secrets_file).password))
         => pc \notin {"exit"} \/ InSeq("launch", started)
    /\ (pc # "start" /\ MissingInput) => Exited /\ exitCode # 0 /\ ~InSeq("launch", started)

LocatorSteps == {"click_continue_with_email", "fill_email_address", "click_continue"}

\* C10 (locator exhaustion is fatal): when every candidate of a locator
\* step has failed on every poll tick, the run has failed at that step and
\* no later step was begun.
LocatorExhaustionFatal ==
    \A step \in exhausted : Last(started) = step /\ (Exited => exitCode # 0)

\* C10 as amended: exhaustion of the fill-email step or of the continue
\* step fails the run at that step; exhaustion of the "Continue with
\* email" entry point does not, the run goes on to the fill-email step.
LocatorExhaustionFatalAfterEntry ==
    /\ \A step \in exhausted \ {"click_continue_with_email"} :
         Exited /\ exitCode # 0 /\ Last(started) = step
    /\ ("click_continue_with_email" \in exhausted /\ Exited)
         => InSeq("fill_email_address", started)

LocatorExhaustionWitness ==
    /\ exhausted = {"click_continue_with_email", "fill_email_address"}
    /\ Exited
    /\ Last(stderr) = "could not find email input"

(***************************************************************************)
(* Properties of the magic-link prompt                                     *)
(***************************************************************************)
\* C19 (invalid magic link): an email-link run whose operator input does
\* not start with http never navigates to the input, prints the diagnostic
\* to the error stream, closes the browser session and exits with status 2,
\* with and without --user-data-dir.
InvalidLinkRejected ==
    (Exited /\ InSeq("invalid link", stderr))
        => /\ args.mode = "email-link"
           /\ ~InSeq("goto:link", started)
           /\ session = "closed"
           /\ exitCode = ExitInvalidInput

(***************************************************************************)
(* Properties of the wait loops                                            *)
(***************************************************************************)
\* C18 (bounded waits): a locator loop makes at most 40 poll ticks; the
\* token wait polls only while the token is unset and the deadline of
\* max(1, timeout-seconds) seconds has not passed; every run that launched
\* a session ends, with the session no longer open and an exit status of
\* Done or Failed.
BoundedWaits ==
    /\ [](tick < PollTicks)
    /\ [](pc = "wait"
            => /\ now <= deadline
               /\ deadline = Max(1, args.timeout_seconds) * TicksPerSecond)
    /\ [][now' # now => pc = "wait" /\ token = None /\ now < deadline]_tokVars
    /\ [](Exited => session # "open" /\ exitCode \in {ExitOk, ExitNoToken, ExitInvalidInput})
    /\ (pc = "launch") ~> Exited

\* a run that spent the forty ticks of a locator loop, then waited for the
\* token until the deadline, closed the session and ended
BoundedWaitsWitness ==
    /\ Exited
    /\ "click_continue_with_email" \in exhausted
    /\ token = None
    /\ now = deadline
    /\ now = Max(1, args.timeout_seconds) * TicksPerSecond
    /\ session = "closed"

(***************************************************************************)
(* Properties of a run of either tool                                      *)
(***************************************************************************)
\* C12 (subscription precedes navigation): in both tools the request
\* callback is registered before the first navigation is issued, and no
\* request of the session is issued while no callback is registered.
SubscriptionPrecedesNavigation ==
    /\ Navigated => registered
    /\ RunNavigated => run.registered
    /\ \A i \in 1..Len(started) :
         started[i] \in {"goto:/", "goto:/login", "goto:link"}
            => \E j \in 1..(i - 1) : started[j] = "register"
    /\ \A i \in 1..Len(run.started) :
         run.started[i] \in {"goto:/", "login", "submit", "goto:/transactions"}
            => \E j \in 1..(i - 1) : run.started[j] = "register"
    /\ missed = 0
    /\ run.missed = 0

\* a capture run whose first navigation caused requests, all of them heard
\* by the callback
SubscriptionPrecedesNavigationWitness ==
    /\ run.pc = "login"
    /\ Last(run.started) = "goto:/"
    /\ delivered = 2
    /\ dbg.graphql_seen = 2
    /\ run.missed = 0

\* C14 (callbacks versus teardown reads): the store and the counters change
\* only in a call of on_request during the open session; the writer reads
\* them only after the browser was closed, when they no longer change; the
\* manifest written has a count equal to the number of operations it lists,
\* which are those of the store, and the counters of that same state.
TeardownReads ==
    /\ [][(ops' # ops \/ dbg' # dbg)
            => /\ delivered' = delivered + 1
               /\ run.session = "open"
               /\ run.registered]_vars
    /\ [][run'.manifest # run.manifest => run.session = "closed"]_vars
    /\ [](run.manifest.t = "written"
            => /\ run.manifest.count = Cardinality(run.manifest.operations)
               /\ run.manifest.operations = {ops[k] : k \in DOMAIN ops}
               /\ run.manifest.debug = dbg)

\* a capture run that heard two requests, one of them stored, and wrote the
\* manifest
TeardownReadsWitness ==
    /\ run.pc = "exit"
    /\ run.exitCode = ExitOk
    /\ run.manifest.t = "written"
    /\ run.manifest.count = 1
    /\ run.manifest.debug.graphql_seen = 2

====
